---- MODULE Spec2Model ----
(***************************************************************************)
(* A model of map_gen.py: the command-line tool that turns GPX track       *)
(* recordings into one rendered HTML page.  The run is linear; `pc` is the *)
(* position in __main__ / generate_map, the loops of load_all_gpx_files    *)
(* and load_styles advance one file per step.                              *)
(*                                                                         *)
(* Files are named by records [dir, stem, ext]; os.path.basename drops the *)
(* directory, os.path.splitext(...)[0] keeps the stem.  Strings are sorted *)
(* by their rank in DirOrder / StemOrder, which list the names in string   *)
(* order.  Coordinates are integers (metres on a local plane).             *)
(***************************************************************************)
EXTENDS Integers, Sequences, FiniteSets, TLC

\* ------------------------------------------------------------------ bounds
\* number of recording names that may exist in the routes directory
MaxRouteFiles == 2
\* number of style files the style pattern may match
MaxStyleFiles == 2

\* ------------------------------------------------------- program constants
\* track.simplify(max_distance=10)
SimplifyMaxDistance == 10
\* gpx.length_2d() / 1000
MetresPerKm == 1000
\* round(..., 2)
RoundDigits == 2

\* ------------------------------------------------------------------- names
DirOrder == <<".", "other", "routes", "styles">>
StemOrder == <<"a", "b", "c", "d", "dark", "default", "light", "marathon_map",
               "notes", "retro", "template">>
RouteStemTable == <<"a", "b", "c", "d">>
StyleStemTable == <<"dark", "default", "light", "retro">>
ExtOrder == <<"", ".gpx", ".html", ".json", ".txt">>

RankIn(table, s) == CHOOSE i \in 1..Len(table) : table[i] = s

Path(d, s, e) == [dir |-> d, stem |-> s, ext |-> e]

\* string order of two paths "dir/stem.ext"
PathLess(p, q) ==
    LET dp == RankIn(DirOrder, p.dir)   dq == RankIn(DirOrder, q.dir)
        sp == RankIn(StemOrder, p.stem) sq == RankIn(StemOrder, q.stem)
        ep == RankIn(ExtOrder, p.ext)   eq == RankIn(ExtOrder, q.ext)
    IN  \/ dp < dq
        \/ dp = dq /\ sp < sq
        \/ dp = dq /\ sp = sq /\ ep < eq

\* sorted(files)
RECURSIVE Sorted(_)
Sorted(S) ==
    IF S = {} THEN <<>>
    ELSE LET m == CHOOSE x \in S : \A y \in S \ {x} : PathLess(x, y)
         IN  <<m>> \o Sorted(S \ {m})

\* os.path.basename(path)
Basename(p) == [stem |-> p.stem, ext |-> p.ext]

\* os.path.splitext(os.path.basename(path))[0]
StemOf(p) == Basename(p).stem

\* --------------------------------------------------------------- dict type
\* a Python dict: keys in insertion order, values alongside
EmptyDict == [keys |-> <<>>, vals |-> <<>>]
DictKeys(d) == {d.keys[i] : i \in 1..Len(d.keys)}
DictHas(d, k) == k \in DictKeys(d)
DictIdx(d, k) == CHOOSE i \in 1..Len(d.keys) : d.keys[i] = k
DictGet(d, k) == d.vals[DictIdx(d, k)]
DictSet(d, k, v) ==
    IF DictHas(d, k)
    THEN [d EXCEPT !.vals[DictIdx(d, k)] = v]
    ELSE [keys |-> Append(d.keys, k), vals |-> Append(d.vals, v)]

\* ----------------------------------------------------------- file contents
NoTime == 0 - 1
Pt(x, y, t) == [lat |-> x, lng |-> y, time |-> t]

Absent == [kind |-> "absent"]
Garbage == [kind |-> "garbage"]
\* a recording is a sequence of tracks, a track a sequence of segments
Gpx(tracks) == [kind |-> "gpx", tracks |-> tracks]

\* no track at all
DocNoTrack == Gpx(<<>>)
\* one track, one segment without points
DocEmpty == Gpx(<< << <<>> >> >>)
\* two timed points, 50 m apart
DocA == Gpx(<< << << Pt(0, 0, 630), Pt(30, 40, 700) >> >> >>)
\* untimed; a collinear middle point and a second one-point segment
DocB == Gpx(<< << << Pt(0, 0, NoTime), Pt(0, 20, NoTime), Pt(0, 40, NoTime) >>,
                  << Pt(10, 40, NoTime) >> >> >>)
\* a detour of 30 m that simplification must keep; time only on the 2nd point
DocC == Gpx(<< << << Pt(0, 0, NoTime), Pt(30, 0, 125), Pt(30, 40, 190) >> >> >>)

RouteStems == {RouteStemTable[i] : i \in 1..MaxRouteFiles}
RoutesDir == "routes"
RoutePaths == {Path(RoutesDir, s, ".gpx") : s \in RouteStems}
\* a recording kept outside the routes directory, named like one inside it
OutsidePath == Path("other", RouteStemTable[1], ".gpx")
\* a file of the routes directory that is no recording
NotesPath == Path(RoutesDir, "notes", ".txt")
GpxPaths == RoutePaths \cup {OutsidePath}
OutputPath == Path(".", "marathon_map", ".html")
TemplatePath == Path(".", "template", ".html")
StylePaths == {Path("styles", StyleStemTable[i], ".json") : i \in 1..MaxStyleFiles}

RouteContents == {Absent, Garbage, DocEmpty, DocA, DocC}
OutsideContents == {Absent, DocNoTrack, DocA, DocB}
StyleContents == {[kind |-> "json", doc |-> "S1"], [kind |-> "malformed"],
                  [kind |-> "unreadable"]}
TemplateContents == {Absent, [kind |-> "template", ok |-> TRUE],
                     [kind |-> "template", ok |-> FALSE]}
\* the output file before the run: missing, or some earlier page
OldPage == [kind |-> "text", body |-> [prior |-> "old page"]]
OutputContents == {Absent, OldPage}

\* os.getenv: None or a string
NoneKey == [isNone |-> TRUE, str |-> ""]
KeyValues == {NoneKey, [isNone |-> FALSE, str |-> ""], [isNone |-> FALSE, str |-> "AIza"]}
\* mutant: the credential check is left out
FalsyNever(k) == FALSE

\* `not api_key`
Falsy(k) == k.isNone \/ k.str = ""

\* args.gpx_file when the positional argument is omitted
NoArg == Path("", "", "")

\* ------------------------------------------------------------------- state
VARIABLES
    pc,            \* position in __main__ / generate_map
    env_key,       \* os.getenv('GOOGLE_MAPS_API_KEY')
    argv_gpx,      \* args.gpx_file as parsed from the command line
    fs,            \* contents of the recordings, the notes file and the output
    fs0,           \* fs when the process started
    opened,        \* paths handed to open() or to the template loader so far
    style_dir,     \* the style files as the run found them
    api_key, gpx_path, primary, all_routes, gpx_todo, primary_filename,
    styles, style_todo, default_style, template, html_output,
    exit_status,   \* process exit status, NotExited while running
    fault          \* the exception that ended the process, "" if none

vars == <<pc, env_key, argv_gpx, fs, fs0, opened, style_dir, api_key, gpx_path,
          primary, all_routes, gpx_todo, primary_filename, styles, style_todo,
          default_style, template, html_output, exit_status, fault>>

NotExited == 0 - 1

\* ------------------------------------------------------------ Track Loader
Abs(n) == IF n < 0 THEN 0 - n ELSE n
Sq(n) == n * n

\* whole square root
ISqrt(n) == CHOOSE r \in 0..n : Sq(r) <= n /\ n < Sq(r + 1)

Dist2(p, q) == Sq(p.lat - q.lat) + Sq(p.lng - q.lng)

\* gpxpy simplify_polyline: Ramer-Douglas-Peucker with tolerance max_distance
RECURSIVE SimplifyPolyline(_, _)
SimplifyPolyline(pts, max_distance) ==
    IF Len(pts) < 3 THEN pts
    ELSE
      LET b == pts[1]
          e == pts[Len(pts)]
          Cross(p) == Abs((e.lat - b.lat) * (p.lng - b.lng)
                          - (e.lng - b.lng) * (p.lat - b.lat))
          inner == 2..(Len(pts) - 1)
          far == CHOOSE i \in inner :
                     /\ \A j \in inner : Cross(pts[j]) <= Cross(pts[i])
                     /\ \A j \in inner : j < i => Cross(pts[j]) < Cross(pts[i])
          within == IF Dist2(b, e) = 0
                    THEN Dist2(b, pts[far]) < Sq(max_distance)
                    ELSE Sq(Cross(pts[far])) < Sq(max_distance) * Dist2(b, e)
      IN  IF within THEN <<b, e>>
          ELSE SimplifyPolyline(SubSeq(pts, 1, far), max_distance)
               \o Tail(SimplifyPolyline(SubSeq(pts, far, Len(pts)), max_distance))

\* track.simplify(max_distance=10) on every track (lines 36-37)
Simplify(tracks) ==
    [t \in 1..Len(tracks) |->
        [s \in 1..Len(tracks[t]) |->
            SimplifyPolyline(tracks[t][s], SimplifyMaxDistance)]]

RECURSIVE Concat(_)
Concat(seqs) == IF seqs = <<>> THEN <<>> ELSE Head(seqs) \o Concat(Tail(seqs))

\* every point of every segment of every track, in document order
AllPoints(tracks) == Concat([t \in 1..Len(tracks) |-> Concat(tracks[t])])

\* points.append({'lat': ..., 'lng': ...}) (lines 39-43)
Flatten(tracks) ==
    LET pts == AllPoints(tracks)
    IN  [i \in 1..Len(pts) |-> [lat |-> pts[i].lat, lng |-> pts[i].lng]]

RECURSIVE SegmentLength(_)
SegmentLength(pts) ==
    IF Len(pts) < 2 THEN 0
    ELSE ISqrt(Dist2(pts[1], pts[2])) + SegmentLength(Tail(pts))

RECURSIVE SumSeq(_)
SumSeq(ns) == IF ns = <<>> THEN 0 ELSE Head(ns) + SumSeq(Tail(ns))

\* gpx.length_2d(): segment by segment, in metres
Length2d(tracks) ==
    SumSeq([t \in 1..Len(tracks) |->
               SumSeq([s \in 1..Len(tracks[t]) |-> SegmentLength(tracks[t][s])])])

Pow10(n) == IF n = 0 THEN 1 ELSE IF n = 1 THEN 10 ELSE IF n = 2 THEN 100 ELSE 1000

\* round(metres / 1000, 2), in units of 10^-2 km (line 46)
RoundKm(metres) ==
    (metres * Pow10(RoundDigits) + MetresPerKm \div 2) \div MetresPerKm

\* strings a date can be
StrEmpty == [text |-> "", minute |-> NotExited]
StrNA == [text |-> "N/A", minute |-> NotExited]
\* start_time.strftime("%Y-%m-%d %H:%M"): the seconds are dropped
Strftime(t) == [text |-> "%Y-%m-%d %H:%M", minute |-> t \div 60]

\* gpx.get_time_bounds().start_time: the first point that has a time
StartTime(tracks) ==
    LET pts == AllPoints(tracks)
        timed == {i \in 1..Len(pts) : pts[i].time # NoTime}
    IN  IF timed = {} THEN NoTime
        ELSE pts[CHOOSE i \in timed : \A j \in timed : i <= j].time

\* the body of the try block of parse_gpx (lines 31-50)
ParseTry(content) ==
    IF content.kind # "gpx"
    THEN [raised |-> TRUE, coords |-> <<>>, distance |-> 0, date |-> StrEmpty]
    ELSE LET simplified == Simplify(content.tracks)
             start_time == StartTime(simplified)
         IN  [raised |-> FALSE,
              coords |-> Flatten(simplified),
              distance |-> RoundKm(Length2d(simplified)),
              date |-> IF start_time # NoTime THEN Strftime(start_time) ELSE StrNA]

\* mutant: no except clause, the exception leaves parse_gpx
ParseContentNoExcept(content) == ParseTry(content)

\* parse_gpx applied to what a file holds: try / except Exception (lines 28-53)
ParseContent(content) ==
    LET r == ParseTry(content)
    IN  IF r.raised
        THEN [raised |-> FALSE, coords |-> <<>>, distance |-> 0, date |-> StrEmpty]
        ELSE r

\* parse_gpx(filename)
parse_gpx(filename) == ParseContent(fs[filename])

\* mutant: the empty result of the primary recording is not checked
NoCoordsNever(coords) == FALSE

\* `not coords` (line 84)
NoCoords(coords) == coords = <<>>

\* the dict stored in the catalog for a loaded recording
RouteEntry(r) == [coords |-> r.coords, distance |-> r.distance, date |-> r.date]

\* mutant: the pattern is '*' instead of '*.gpx'
GlobGpxAnyExt(routes_dir) ==
    {p \in DOMAIN fs : p.dir = routes_dir /\ fs[p] # Absent}

\* glob.glob(os.path.join(routes_dir, '*.gpx'))
GlobGpx(routes_dir) ==
    {p \in DOMAIN fs : p.dir = routes_dir /\ p.ext = ".gpx" /\ fs[p] # Absent}

\* ------------------------------------------------------------ Style Loader
\* the body of the try block of load_styles for one file (lines 19-22):
\* open() fails on an unreadable file, json.load on a malformed one
StyleTry(style_file, content) ==
    IF content.kind = "json"
    THEN [raised |-> FALSE, name |-> StemOf(style_file), doc |-> content.doc]
    ELSE [raised |-> TRUE, name |-> "", doc |-> ""]

\* mutant: the key is stored before the file is parsed
StyleStepKeyOnFailure(d, style_file, content) ==
    LET r == StyleTry(style_file, content)
    IN  DictSet(d, StemOf(style_file), r.doc)

\* one pass of the loop of load_styles (lines 17-24)
StyleStep(d, style_file, content) ==
    LET r == StyleTry(style_file, content)
    IN  IF r.raised THEN d ELSE DictSet(d, r.name, r.doc)

\* mutant: the last loaded style instead of the first
DefaultStyleLast(d) == IF d.keys # <<>> THEN d.keys[Len(d.keys)] ELSE "default"

\* list(styles.keys())[0] if styles else 'default' (line 103)
DefaultStyle(d) == IF d.keys # <<>> THEN d.keys[1] ELSE "default"

\* ------------------------------------------------------ Route Catalog Builder
\* mutant: `if coords` is left out
RouteStepKeepEmpty(d, gpx_file) ==
    LET r == parse_gpx(gpx_file)
    IN  DictSet(d, Basename(gpx_file), RouteEntry(r))

\* one pass of the loop of load_all_gpx_files (lines 60-72)
RouteStep(d, gpx_file) ==
    LET r == parse_gpx(gpx_file)
    IN  IF r.raised THEN d
        ELSE IF r.coords # <<>> THEN DictSet(d, Basename(gpx_file), RouteEntry(r))
        ELSE d

\* mutant: the primary is never inserted
WithPrimaryNoInsert(d, filename, r) == d

\* "Add primary route if not already in all_routes" (lines 92-98)
WithPrimary(d, filename, r) ==
    IF ~DictHas(d, filename) THEN DictSet(d, filename, RouteEntry(r)) ELSE d

\* mutant: the file is opened with 'a'
WriteFileAppend(before, text) ==
    IF before = Absent THEN [kind |-> "text", body |-> text]
    ELSE [kind |-> "text", body |-> [prior |-> before.body, appended |-> text]]

\* what open(output_path, 'w') and f.write(text) leave in a file that held
\* `before` (lines 124-125)
WriteFile(before, text) == [kind |-> "text", body |-> text]

\* template.render(...) (lines 111-121)
RenderContext ==
    [api_key |-> api_key.str,
     route_coords |-> primary.coords,
     all_styles |-> styles,
     style_names |-> styles.keys,
     default_style |-> default_style,
     total_distance_km |-> primary.distance,
     start_time |-> primary.date,
     all_routes |-> all_routes,
     default_route |-> primary_filename]

\* -------------------------------------------------------------------- Init
NoResult == [raised |-> FALSE, coords |-> <<>>, distance |-> 0, date |-> StrEmpty]
NoContext == [api_key |-> ""]

Init ==
    /\ pc = "main"
    /\ env_key \in KeyValues
    /\ argv_gpx \in {NoArg} \cup GpxPaths
    /\ \E r \in [RoutePaths -> RouteContents], o \in OutsideContents,
          out \in OutputContents :
          fs = [p \in GpxPaths \cup {NotesPath, OutputPath} |->
                  IF p \in RoutePaths THEN r[p]
                  ELSE IF p = OutsidePath THEN o
                  ELSE IF p = OutputPath THEN out
                  ELSE [kind |-> "text", body |-> [prior |-> "notes"]]]
    /\ fs0 = fs
    /\ opened = {}
    /\ style_dir = [p \in StylePaths |-> Absent]
    /\ api_key = NoneKey
    /\ gpx_path = NoArg
    /\ primary = NoResult
    /\ all_routes = EmptyDict
    /\ gpx_todo = <<>>
    /\ primary_filename = Basename(NoArg)
    /\ styles = EmptyDict
    /\ style_todo = <<>>
    /\ default_style = ""
    /\ template = Absent
    /\ html_output = NoContext
    /\ exit_status = NotExited
    /\ fault = ""

\* ----------------------------------------------------------------- actions
\* the process ends: normally, by exit(n), or by an uncaught exception
Exit(status, why) ==
    /\ pc' = "done"
    /\ exit_status' = status
    /\ fault' = why

\* __main__: choose the primary recording (lines 136-148)
ResolvePrimary ==
    /\ pc = "main"
    /\ IF argv_gpx = NoArg
       THEN IF GlobGpx(RoutesDir) = {}
            THEN /\ Exit(1, "SystemExit")
                 /\ UNCHANGED gpx_path
            ELSE /\ gpx_path' = Sorted(GlobGpx(RoutesDir))[1]
                 /\ pc' = "check_key"
                 /\ UNCHANGED <<exit_status, fault>>
       ELSE /\ gpx_path' = argv_gpx
            /\ pc' = "check_key"
            /\ UNCHANGED <<exit_status, fault>>
    /\ UNCHANGED <<env_key, argv_gpx, fs, fs0, opened, style_dir, api_key, primary,
                   all_routes, gpx_todo, primary_filename, styles, style_todo,
                   default_style, template, html_output>>

\* generate_map: the credential (lines 77-79)
CheckKey ==
    /\ pc = "check_key"
    /\ api_key' = env_key
    /\ IF Falsy(env_key)
       THEN Exit(1, "ValueError")
       ELSE /\ pc' = "parse_primary"
            /\ UNCHANGED <<exit_status, fault>>
    /\ UNCHANGED <<env_key, argv_gpx, fs, fs0, opened, style_dir, gpx_path, primary,
                   all_routes, gpx_todo, primary_filename, styles, style_todo,
                   default_style, template, html_output>>

\* generate_map: the primary recording (lines 83-85), then the directory
\* listing that starts load_all_gpx_files (lines 57-58)
ParsePrimary ==
    /\ pc = "parse_primary"
    /\ primary' = parse_gpx(gpx_path)
    /\ opened' = opened \cup {gpx_path}
    /\ IF NoCoords(parse_gpx(gpx_path).coords)
       THEN /\ Exit(0, "")
            /\ UNCHANGED <<gpx_todo, all_routes>>
       ELSE /\ pc' = "load_routes"
            /\ gpx_todo' = Sorted(GlobGpx(RoutesDir))
            /\ all_routes' = EmptyDict
            /\ UNCHANGED <<exit_status, fault>>
    /\ UNCHANGED <<env_key, argv_gpx, fs, fs0, style_dir, api_key, gpx_path,
                   primary_filename, styles, style_todo, default_style, template,
                   html_output>>

\* load_all_gpx_files: one file of the sorted scan (lines 60-72)
LoadRoute ==
    /\ pc = "load_routes"
    /\ gpx_todo # <<>>
    /\ all_routes' = RouteStep(all_routes, Head(gpx_todo))
    /\ opened' = opened \cup {Head(gpx_todo)}
    /\ gpx_todo' = Tail(gpx_todo)
    /\ UNCHANGED <<pc, env_key, argv_gpx, fs, fs0, style_dir, api_key, gpx_path,
                   primary, primary_filename, styles, style_todo, default_style,
                   template, html_output, exit_status, fault>>

\* load_all_gpx_files returns; the primary is put in the catalog (lines 74, 92-98)
AddPrimary ==
    /\ pc = "load_routes"
    /\ gpx_todo = <<>>
    /\ primary_filename' = Basename(gpx_path)
    /\ all_routes' = WithPrimary(all_routes, Basename(gpx_path), primary)
    /\ pc' = "glob_styles"
    /\ UNCHANGED <<env_key, argv_gpx, fs, fs0, opened, style_dir, api_key, gpx_path,
                   primary, gpx_todo, styles, style_todo, default_style, template,
                   html_output, exit_status, fault>>

\* load_styles: the files the pattern matches, as found on disk (lines 14-15)
GlobStyles ==
    /\ pc = "glob_styles"
    /\ \E found \in [StylePaths -> StyleContents \cup {Absent}] :
          /\ style_dir' = found
          /\ style_todo' = Sorted({p \in StylePaths : found[p] # Absent})
    /\ styles' = EmptyDict
    /\ pc' = "load_styles"
    /\ UNCHANGED <<env_key, argv_gpx, fs, fs0, opened, api_key, gpx_path, primary,
                   all_routes, gpx_todo, primary_filename, default_style, template,
                   html_output, exit_status, fault>>

\* load_styles: one file of the sorted loop (lines 17-24)
LoadStyle ==
    /\ pc = "load_styles"
    /\ style_todo # <<>>
    /\ styles' = StyleStep(styles, Head(style_todo), style_dir[Head(style_todo)])
    /\ opened' = opened \cup {Head(style_todo)}
    /\ style_todo' = Tail(style_todo)
    /\ UNCHANGED <<pc, env_key, argv_gpx, fs, fs0, style_dir, api_key, gpx_path,
                   primary, all_routes, gpx_todo, primary_filename, default_style,
                   template, html_output, exit_status, fault>>

\* load_styles returns; the default style is picked (lines 26, 103)
PickDefaultStyle ==
    /\ pc = "load_styles"
    /\ style_todo = <<>>
    /\ default_style' = DefaultStyle(styles)
    /\ pc' = "get_template"
    /\ UNCHANGED <<env_key, argv_gpx, fs, fs0, opened, style_dir, api_key, gpx_path,
                   primary, all_routes, gpx_todo, primary_filename, styles,
                   style_todo, template, html_output, exit_status, fault>>

\* env.get_template(template_file) (lines 106-107)
GetTemplate ==
    /\ pc = "get_template"
    /\ opened' = opened \cup {TemplatePath}
    /\ \E t \in TemplateContents :
          /\ template' = t
          /\ IF t = Absent
             THEN Exit(1, "TemplateNotFound")
             ELSE /\ pc' = "render"
                  /\ UNCHANGED <<exit_status, fault>>
    /\ UNCHANGED <<env_key, argv_gpx, fs, fs0, style_dir, api_key, gpx_path, primary,
                   all_routes, gpx_todo, primary_filename, styles, style_todo,
                   default_style, html_output>>

\* template.render(...) (lines 110-121)
Render ==
    /\ pc = "render"
    /\ IF template.ok
       THEN /\ html_output' = RenderContext
            /\ pc' = "save"
            /\ UNCHANGED <<exit_status, fault>>
       ELSE /\ Exit(1, "TemplateError")
            /\ UNCHANGED html_output
    /\ UNCHANGED <<env_key, argv_gpx, fs, fs0, opened, style_dir, api_key, gpx_path,
                   primary, all_routes, gpx_todo, primary_filename, styles,
                   style_todo, default_style, template>>

\* open(output_path, 'w'); f.write(html_output) (lines 124-126)
Save ==
    /\ pc = "save"
    /\ fs' = [fs EXCEPT ![OutputPath] = WriteFile(fs[OutputPath], html_output)]
    /\ Exit(0, "")
    /\ UNCHANGED <<env_key, argv_gpx, fs0, opened, style_dir, api_key, gpx_path,
                   primary, all_routes, gpx_todo, primary_filename, styles,
                   style_todo, default_style, template, html_output>>

Next ==
    \/ ResolvePrimary
    \/ CheckKey
    \/ ParsePrimary
    \/ LoadRoute
    \/ AddPrimary
    \/ GlobStyles
    \/ LoadStyle
    \/ PickDefaultStyle
    \/ GetTemplate
    \/ Render
    \/ Save

Spec == Init /\ [][Next]_vars

\* ------------------------------------------------------------------ claims
Range(q) == {q[i] : i \in 1..Len(q)}
RoutePath(stem) == Path(RoutesDir, stem, ".gpx")

\* C1: with the credential variable absent the process aborts (exit(1) of
\* __main__ or the ValueError of generate_map) and until then opens no
\* recording, style file or template, and leaves every file, the output
\* included, as it was.
C1_NoFileIOWithoutCredential ==
    env_key = NoneKey =>
        /\ opened = {}
        /\ fs = fs0
        /\ pc \in {"main", "check_key", "done"}
        /\ pc = "done" => /\ exit_status = 1
                          /\ fault \in {"SystemExit", "ValueError"}

C1_Witness ==
    /\ env_key = NoneKey
    /\ pc = "done"
    /\ fault = "ValueError"
    /\ argv_gpx = NoArg
    /\ fs0[gpx_path] = DocA
    /\ fs0[OutputPath] = OldPage

\* C2: whenever the renderer is invoked the catalog holds the primary's
\* basename as a key, exactly once; and the step that inserts the primary
\* keeps every entry the scan loaded, under the same value and in the same
\* place, and adds no key but the primary's.
C2_CatalogHasPrimary ==
    pc \in {"glob_styles", "load_styles", "get_template", "render", "save"} =>
        /\ primary_filename = Basename(gpx_path)
        /\ Cardinality({i \in 1..Len(all_routes.keys) :
                           all_routes.keys[i] = primary_filename}) = 1

C2_InsertStep ==
    (pc = "load_routes" /\ pc' = "glob_styles") =>
        /\ DictKeys(all_routes') = DictKeys(all_routes) \cup {Basename(gpx_path)}
        /\ \A i \in 1..Len(all_routes.keys) :
              /\ all_routes'.keys[i] = all_routes.keys[i]
              /\ all_routes'.vals[i] = all_routes.vals[i]
        /\ Len(all_routes'.keys) =
              Len(all_routes.keys)
              + (IF DictHas(all_routes, Basename(gpx_path)) THEN 0 ELSE 1)

C2_PrimaryInCatalog == [](C2_CatalogHasPrimary) /\ [][C2_InsertStep]_vars

C2_Witness ==
    /\ pc = "render"
    /\ gpx_path = OutsidePath
    /\ fs[RoutePath(RouteStemTable[1])] = Absent
    /\ Len(all_routes.keys) = 2
    /\ all_routes.keys[2] = Basename(OutsidePath)

\* the primary recording has been parsed and gave no coordinate
PrimaryEmpty == gpx_path \in opened /\ primary.coords = <<>>

\* C3 as stated: a recording that gives no point makes parse_gpx return the
\* empty sentinel ([], 0, "") without raising.
C3_EmptySentinel ==
    PrimaryEmpty =>
        /\ ~primary.raised
        /\ primary.distance = 0
        /\ primary.date = StrEmpty

\* C3 amended: a recording that gives no point makes parse_gpx return an
\* empty coordinate sequence and distance 0 without raising; the time string
\* is "" when opening or parsing failed and "N/A" when the recording parsed
\* and holds no point.
C3_EmptyResult ==
    PrimaryEmpty =>
        /\ ~primary.raised
        /\ primary.distance = 0
        /\ primary.date = IF fs[gpx_path].kind = "gpx" THEN StrNA ELSE StrEmpty

C3_Witness ==
    /\ PrimaryEmpty
    /\ fs[gpx_path] = DocEmpty
    /\ primary.date = StrNA
    /\ primary.distance = 0

\* C4: when the primary recording gives no coordinate (missing, corrupt or
\* without points) the run ends at once with status 0 and no exception: no
\* other file is opened, no catalog or style is loaded, nothing is rendered
\* and no file changes.
C4_EmptyPrimaryIsNoOp ==
    PrimaryEmpty =>
        /\ pc = "done"
        /\ exit_status = 0
        /\ fault = ""
        /\ opened = {gpx_path}
        /\ all_routes = EmptyDict
        /\ styles = EmptyDict
        /\ \A p \in StylePaths : style_dir[p] = Absent
        /\ template = Absent
        /\ html_output = NoContext
        /\ fs = fs0

C4_Witness ==
    /\ PrimaryEmpty
    /\ pc = "done"
    /\ fs[gpx_path] = Garbage
    /\ \E p \in RoutePaths : fs[p] = DocA
    /\ fs0[OutputPath] = OldPage

\* C5: with no primary on the command line and no recording in the routes
\* directory the process ends by exit(1) before generate_map is entered, with
\* or without the credential, and no file is opened or changed.
C5_NoRecordingExitsNonzero ==
    (argv_gpx = NoArg /\ \A p \in RoutePaths : fs0[p] = Absent) =>
        /\ pc \in {"main", "done"}
        /\ pc = "done" => (exit_status = 1 /\ fault = "SystemExit")
        /\ api_key = NoneKey
        /\ gpx_path = NoArg
        /\ opened = {}
        /\ fs = fs0

C5_Witness ==
    /\ argv_gpx = NoArg
    /\ \A p \in RoutePaths : fs0[p] = Absent
    /\ pc = "done"
    /\ exit_status = 1
    /\ ~Falsy(env_key)
    /\ fs0[OutsidePath] = DocA
    /\ fs0[OutputPath] = OldPage

\* the style files load_styles has been through so far
StylesTried == {p \in StylePaths : style_dir[p] # Absent} \ Range(style_todo)

\* C6: at every point of load_styles the mapping's keys are exactly the stems
\* of the files gone through that opened and parsed, each once and with its
\* document; a file that failed is no key and the loop goes on to the end
\* without an exception.
C6_StyleKeysAreParsedFiles ==
    /\ DictKeys(styles) = {StemOf(p) : p \in {q \in StylesTried : style_dir[q].kind = "json"}}
    /\ Len(styles.keys) = Cardinality(DictKeys(styles))
    /\ \A p \in StylesTried :
          style_dir[p].kind = "json" => DictGet(styles, StemOf(p)) = style_dir[p].doc
    /\ StylesTried \subseteq opened
    /\ pc \in {"load_styles", "get_template"} => fault = ""

C6_Witness ==
    /\ pc = "get_template"
    /\ Cardinality(StylesTried) = MaxStyleFiles
    /\ style_dir[Path("styles", StyleStemTable[1], ".json")].kind = "malformed"
    /\ style_dir[Path("styles", StyleStemTable[2], ".json")].kind = "json"
    /\ styles.keys = <<StyleStemTable[2]>>

\* the recordings load_all_gpx_files has been through so far
RoutesTried ==
    IF pc \in {"main", "check_key", "parse_primary"} \/ PrimaryEmpty THEN {}
    ELSE {p \in RoutePaths : fs[p] # Absent} \ Range(gpx_todo)

\* the routes directory of the scenario: a.gpx valid, b.gpx corrupt, no other
ScenarioAB ==
    /\ argv_gpx = NoArg
    /\ fs0[RoutePath("a")] \in {DocA, DocC}
    /\ fs0[RoutePath("b")] = Garbage
    /\ \A p \in RoutePaths \ {RoutePath("a"), RoutePath("b")} : fs0[p] = Absent

\* C7: at every point of the scan the catalog's keys are exactly the basenames
\* of the recordings gone through whose parse gave coordinates, each with the
\* values parsed; and in the scenario (a.gpx valid, b.gpx corrupt, no primary
\* given) the primary is routes/a.gpx and the catalog rendered has the single
\* entry a.gpx.
C7_CatalogIsNonEmptyRecordings ==
    /\ pc = "load_routes" =>
          /\ DictKeys(all_routes) =
                {Basename(p) : p \in {q \in RoutesTried : parse_gpx(q).coords # <<>>}}
          /\ Len(all_routes.keys) = Cardinality(DictKeys(all_routes))
          /\ \A p \in RoutesTried :
                parse_gpx(p).coords # <<>> =>
                    DictGet(all_routes, Basename(p)) = RouteEntry(parse_gpx(p))
    /\ (ScenarioAB /\ pc \in {"glob_styles", "load_styles", "get_template", "render", "save"}) =>
          /\ gpx_path = RoutePath("a")
          /\ all_routes.keys = <<Basename(RoutePath("a"))>>
          /\ all_routes.vals = <<RouteEntry(ParseContent(fs0[RoutePath("a")]))>>

C7_Witness ==
    /\ ScenarioAB
    /\ pc = "render"
    /\ RoutePath("b") \in opened
    /\ all_routes.keys = <<Basename(RoutePath("a"))>>

\* the run went through the write step
Saved == pc = "done" /\ fault = "" /\ ~PrimaryEmpty /\ exit_status = 0

\* C8: after the write step the output file holds the rendered document and
\* nothing of what it held before; in every other state, a run ended by a
\* failure included, the output file holds what it held at the start; no
\* other file ever changes.
C8_OutputOverwritten ==
    /\ Saved => /\ fs[OutputPath] = [kind |-> "text", body |-> RenderContext]
                /\ template.kind = "template" /\ template.ok
                /\ html_output = RenderContext
    /\ ~Saved => fs[OutputPath] = fs0[OutputPath]
    /\ \A p \in DOMAIN fs \ {OutputPath} : fs[p] = fs0[p]

C8_Witness ==
    /\ Saved
    /\ fs0[OutputPath] = OldPage
    /\ fs[OutputPath].body.default_route = Basename(gpx_path)
    /\ fs[OutputPath].body.route_coords # <<>>

\* the style files that opened and parsed, in the order load_styles takes them
LoadedStylePaths == {p \in StylePaths : style_dir[p].kind = "json"}
FirstLoadedStyle ==
    StemOf(CHOOSE p \in LoadedStylePaths :
               \A q \in LoadedStylePaths \ {p} : PathLess(p, q))

\* C9: once load_styles has returned, the default style is the name of the
\* first style loaded in sorted order, or "default" when none loaded; it is a
\* key of the mapping, and a member of the name list, exactly when the
\* mapping is not empty.
C9_DefaultStyle ==
    (pc \in {"get_template", "render", "save"} \/ Saved) =>
        /\ default_style = IF LoadedStylePaths # {} THEN FirstLoadedStyle ELSE "default"
        /\ DictHas(styles, default_style) <=> styles.keys # <<>>
        /\ default_style \in Range(styles.keys) <=> LoadedStylePaths # {}
        /\ Saved => /\ html_output.default_style = default_style
                    /\ html_output.style_names = styles.keys

C9_Witness ==
    /\ pc = "render"
    /\ Cardinality(LoadedStylePaths) >= 2
    /\ default_style = StyleStemTable[1]

\* C10 as stated: whenever the renderer is invoked the catalog entry under
\* default_route carries the coordinates, distance and date that are passed
\* as the primary route's.
C10_DefaultRouteEntryIsPrimary ==
    pc = "render" =>
        /\ DictHas(all_routes, primary_filename)
        /\ DictGet(all_routes, primary_filename) = RouteEntry(primary)
====
